---- MODULE Spec2Model ----
(***************************************************************************)
(* Model of the marcker text-annotation library: the tokenizer, the        *)
(* annotated-sentence data model, the enrichment pipeline (Service), the   *)
(* NumberEnricher and StopWordEnricher, and the LocalDictionary.           *)
(*                                                                         *)
(* A character is a TLA+ string naming one Unicode scalar value; a Rust    *)
(* String is a sequence of characters.  Non-ASCII characters are named by  *)
(* their code point ("U+0130") because the module text is ASCII.           *)
(***************************************************************************)
EXTENDS Integers, Sequences, FiniteSets, TLC

\* -------------------------------------------------------------------------
\* Bounds of the model
\* -------------------------------------------------------------------------
\* longest raw text drawn for the tokenizer specification
MaxLen == 3
\* largest number of enrichers registered on the Service
MaxPipeline == 2

\* -------------------------------------------------------------------------
\* Characters
\* -------------------------------------------------------------------------
\* "w", "s"   ASCII lower-case letters
\* "W"        ASCII upper-case letter, lower-cases to "w"
\* "U+0130"   LATIN CAPITAL LETTER I WITH DOT ABOVE, lower-cases to the TWO
\*            characters "i" "U+0307" (the only such expansion in Unicode)
\* "5"        ASCII digit
\* "U+00B2"   SUPERSCRIPT TWO: char::is_numeric, but no ASCII digit
\* " "        ASCII whitespace
\* "U+00A0"   NO-BREAK SPACE: whitespace, but not ASCII
\* "-"        ASCII punctuation
\* "U+00AB"   LEFT-POINTING DOUBLE ANGLE QUOTATION MARK: punctuation, but not
\*            ASCII
Alphabet == {"w", "s", "W", "U+0130", "5", "U+00B2", " ", "U+00A0", "-", "U+00AB"}

AsciiDigits == <<"0", "1", "2", "3", "4", "5", "6", "7", "8", "9">>

IsAsciiDigit(c) == \E i \in 1..10 : AsciiDigits[i] = c

\* char::is_ascii_whitespace
IsAsciiWhitespace(c) == c \in {" "}

\* char::is_ascii_punctuation
IsAsciiPunctuation(c) == c \in {"-", "+", "%", ".", "$", ";"}

\* char::is_numeric (Unicode general categories Nd, Nl, No)
IsNumeric(c) == IsAsciiDigit(c) \/ c \in {"U+00B2"}

\* char::to_lowercase: the lower-case mapping of one character
CharToLowercase(c) ==
    CASE c = "W" -> <<"w">>
      [] c = "U+0130" -> <<"i", "U+0307">>
      [] OTHER -> <<c>>

\* str::to_lowercase
RECURSIVE ToLowercase(_)
ToLowercase(s) ==
    IF s = <<>> THEN <<>>
    ELSE CharToLowercase(Head(s)) \o ToLowercase(Tail(s))

\* all strings over the characters A of at most n characters
StringsUpTo(A, n) == UNION {[1..k -> A] : k \in 0..n}

\* -------------------------------------------------------------------------
\* Sentence, Token, Loc, Meta (sentence.rs)
\* -------------------------------------------------------------------------
Loc(start_index, len) == [start_index |-> start_index, len |-> len]

NoMeta == [k \in {} |-> TRUE]

Token(val, loc) == [val |-> val, loc |-> loc, meta |-> NoMeta]

NewSentence(raw, tokens) == [raw |-> raw, tokens |-> tokens]

\* Sentence::by_loc: raw.chars().skip(start_index).take(len)
by_loc(sentence, loc) ==
    LET n == Len(sentence.raw)
        first == loc.start_index + 1
        last == IF loc.start_index + loc.len < n THEN loc.start_index + loc.len ELSE n
    IN  IF first > last THEN <<>> ELSE SubSeq(sentence.raw, first, last)

\* Token::add_meta: BTreeMap::insert, overwriting an existing key
add_meta(token, key, meta) ==
    [token EXCEPT !.meta =
        [k \in (DOMAIN token.meta) \cup {key} |->
            IF k = key THEN meta ELSE token.meta[k]]]

\* Token::get_meta(key).is_some()
has_meta(token, key) == key \in DOMAIN token.meta

\* -------------------------------------------------------------------------
\* The stemmer (rust_stemmers, an external collaborator): a pure, total,
\* deterministic suffix-stripping function.  It is modelled as removing a
\* final "s" from a word of at least three letters and leaving every other
\* word as it is.
\* -------------------------------------------------------------------------
IsLetter(c) == c \in {"w", "s", "i", "U+043C", "U+0438", "U+043D", "U+0443", "U+0441"}

Stem(word) ==
    IF /\ Len(word) >= 3
       /\ word[Len(word)] = "s"
       /\ \A i \in 1..Len(word) : IsLetter(word[i])
    THEN SubSeq(word, 1, Len(word) - 1)
    ELSE word

\* -------------------------------------------------------------------------
\* TokenBuilder and Service::tokenize (service.rs)
\* -------------------------------------------------------------------------
TokenBuilderNew(start_index) == [token |-> <<>>, start_index |-> start_index, len |-> 0]

\* the bytes of the UTF-8 encoding of a character
Utf8Len(c) == IF c \in {"U+0130", "U+0307", "U+00B2", "U+00A0", "U+00AB"} THEN 2 ELSE 1

\* add_symbol counting the length in bytes (len += symbol.len_utf8())
AddSymbolBytes(builder, symbol) ==
    [builder EXCEPT !.token = Append(@, symbol), !.len = @ + Utf8Len(symbol)]

AddSymbol(builder, symbol) ==
    [builder EXCEPT !.token = Append(@, symbol), !.len = @ + 1]

Done(builder) == Token(Stem(builder.token), Loc(builder.start_index, builder.len))

\* The state of the loop of tokenize is [tokens, builder]: tokens are the
\* finished TokenBuilders in the order tokenize pushes their tokens (done()
\* is applied to them at the end, it reads nothing else), builder is the
\* in-progress one: <<>> for None, <<[b |-> builder, numeric |-> flag]>> for
\* Some((builder, flag)).

\* builder.take() and the push of the finished token
TakeBuilder(st) ==
    [tokens |-> st.tokens \o (IF st.builder = <<>> THEN <<>> ELSE <<st.builder[1].b>>),
     builder |-> <<>>]

\* the branch of an ASCII whitespace character
WhitespaceStep(st) == TakeBuilder(st)

\* the branch of an ASCII punctuation character
PunctuationStep(st, index, symbol) ==
    [TakeBuilder(st) EXCEPT
        !.tokens = Append(@, AddSymbol(TokenBuilderNew(index), symbol))]

\* the branch of any other character without the comparison of the classes:
\* the character always joins the builder in progress
ContentStepNoSplit(st, index, symbol) ==
    LET cur == IF st.builder = <<>>
               THEN [b |-> TokenBuilderNew(index), numeric |-> IsNumeric(symbol)]
               ELSE st.builder[1]
    IN  [st EXCEPT !.builder = <<[cur EXCEPT !.b = AddSymbol(@, symbol)]>>]

\* the branch of any other character
ContentStep(st, index, symbol) ==
    LET is_numeric == IsNumeric(symbol)
        cur == IF st.builder = <<>>
               THEN [b |-> TokenBuilderNew(index), numeric |-> is_numeric]
               ELSE st.builder[1]
    IN  IF cur.numeric = is_numeric
        THEN [st EXCEPT !.builder = <<[cur EXCEPT !.b = AddSymbol(@, symbol)]>>]
        ELSE [tokens |-> Append(st.tokens, cur.b),
              builder |-> <<[b |-> AddSymbol(TokenBuilderNew(index), symbol),
                             numeric |-> is_numeric]>>]

\* The loop of tokenize over msg.to_lowercase().chars().enumerate(): chars is
\* the lower-cased text and i the 1-based position of the next character,
\* whose enumerate() index is i - 1.
RECURSIVE TokenizeLoop(_, _, _)
TokenizeLoop(chars, i, st) ==
    IF i > Len(chars) THEN TakeBuilder(st).tokens
    ELSE
      LET symbol == chars[i]
          index == i - 1
      IN  IF IsAsciiWhitespace(symbol)
          THEN TokenizeLoop(chars, i + 1, WhitespaceStep(st))
          ELSE IF IsAsciiPunctuation(symbol)
          THEN TokenizeLoop(chars, i + 1, PunctuationStep(st, index, symbol))
          ELSE TokenizeLoop(chars, i + 1, ContentStep(st, index, symbol))

\* the finished TokenBuilders of tokenize(msg), in token order
Builders(msg) ==
    TokenizeLoop(ToLowercase(msg), 1, [tokens |-> <<>>, builder |-> <<>>])

\* Service::tokenize
Tokenize(msg) == LET b == Builders(msg) IN [k \in 1..Len(b) |-> Done(b[k])]

\* -------------------------------------------------------------------------
\* 64-bit integers.  A magnitude is a sequence of decimal digits (0..9), most
\* significant first, without leading zeros (<<0>> is zero): the values of
\* u64 and i64 do not fit the model checker's integers.
\* -------------------------------------------------------------------------
DigitVal(c) == (CHOOSE i \in 1..10 : AsciiDigits[i] = c) - 1

RECURSIVE StripZeros(_)
StripZeros(d) ==
    IF Len(d) > 1 /\ d[1] = 0 THEN StripZeros(Tail(d)) ELSE d

RECURSIVE LexLeq(_, _)
LexLeq(a, b) ==
    IF a = <<>> THEN TRUE
    ELSE IF a[1] # b[1] THEN a[1] < b[1]
    ELSE LexLeq(Tail(a), Tail(b))

\* a <= b on magnitudes
MagLeq(a, b) == Len(a) < Len(b) \/ (Len(a) = Len(b) /\ LexLeq(a, b))

\* 2^63 - 1 (i64::MAX), 2^63, 2^64 - 1 (u64::MAX), 2^64
I64Max == <<9, 2, 2, 3, 3, 7, 2, 0, 3, 6, 8, 5, 4, 7, 7, 5, 8, 0, 7>>
Pow63 == <<9, 2, 2, 3, 3, 7, 2, 0, 3, 6, 8, 5, 4, 7, 7, 5, 8, 0, 8>>
U64Max == <<1, 8, 4, 4, 6, 7, 4, 4, 0, 7, 3, 7, 0, 9, 5, 5, 1, 6, 1, 5>>
Pow64 == <<1, 8, 4, 4, 6, 7, 4, 4, 0, 7, 3, 7, 0, 9, 5, 5, 1, 6, 1, 6>>

\* a - b on magnitudes, for a >= b: schoolbook subtraction from the last digit
RECURSIVE SubLoop(_, _, _, _)
SubLoop(a, b, k, borrow) ==
    IF k = 0 THEN <<>>
    ELSE LET bd == IF k - (Len(a) - Len(b)) >= 1 THEN b[k - (Len(a) - Len(b))] ELSE 0
             raw == a[k] - bd - borrow
         IN  IF raw < 0
             THEN Append(SubLoop(a, b, k - 1, 1), raw + 10)
             ELSE Append(SubLoop(a, b, k - 1, 0), raw)

MagSub(a, b) == StripZeros(SubLoop(a, b, Len(a), 0))

\* u64::from_str: an optional "+", then one or more ASCII digits, value at
\* most u64::MAX.  <<>> is Err, <<magnitude>> is Ok(magnitude).
ParseU64(val) ==
    LET digits == IF val # <<>> /\ val[1] = "+" THEN Tail(val) ELSE val
    IN  IF digits = <<>> \/ \E i \in 1..Len(digits) : ~IsAsciiDigit(digits[i])
        THEN <<>>
        ELSE LET mag == StripZeros([i \in 1..Len(digits) |-> DigitVal(digits[i])])
             IN  IF MagLeq(mag, U64Max) THEN <<mag>> ELSE <<>>

\* an i64 value: sign and magnitude, zero is never negative
I64(neg, mag) == [neg |-> neg /\ mag # <<0>>, mag |-> mag]

\* `val as i64`: the two's-complement reinterpretation of a u64
CastI64(mag) ==
    IF MagLeq(mag, I64Max) THEN I64(FALSE, mag) ELSE I64(TRUE, MagSub(Pow64, mag))

\* `x * -1` on i64.  i64::MIN * -1 overflows: with overflow checks (debug
\* build) the multiplication panics, without (release build) it wraps to
\* i64::MIN.  <<>> is the panic, <<value>> the product.
MulMinusOne(x, overflow_checks) ==
    IF x.neg /\ x.mag = Pow63
    THEN IF overflow_checks THEN <<>> ELSE <<x>>
    ELSE <<I64(~x.neg, x.mag)>>

\* Meta values (the variants the enrichers use)
MetaBool(b) == [tag |-> "Bool", val |-> b]
MetaUsize(n) == [tag |-> "Usize", val |-> n]
MetaI64(x) == [tag |-> "I64", val |-> x]
MetaU64(mag) == [tag |-> "U64", val |-> mag]

\* -------------------------------------------------------------------------
\* NumberEnricher (enricher/number.rs)
\* -------------------------------------------------------------------------
SIGN_INDEX == "number.sign_index"
NUMBER_INDEX == "number.number_index"
VALUE == "number.number"

\* the token values "-" and the Russian word for minus, the five Cyrillic
\* letters U+043C U+0438 U+043D U+0443 U+0441
MinusSign == <<"-">>
MinusWord == <<"U+043C", "U+0438", "U+043D", "U+0443", "U+0441">>

\* the block computing `number` for one index (0-based): kind "None",
\* "Some" (with signed and val) or "Panic" (the multiplication overflowed)
NumberAt(sentence, index, overflow_checks) ==
    LET token == sentence.tokens[index + 1]
        parsed == ParseU64(token.val)
        none == [kind |-> "None", signed |-> FALSE, val |-> <<>>]
        unsigned == [kind |-> "Some", signed |-> FALSE, val |-> parsed[1]]
    IN  IF parsed = <<>> THEN none
        ELSE IF index > 0
        THEN LET prev == sentence.tokens[index]
             IN  IF prev.val = MinusSign \/ prev.val = MinusWord
                 THEN LET product == MulMinusOne(CastI64(parsed[1]), overflow_checks)
                      IN  IF product = <<>>
                          THEN [kind |-> "Panic", signed |-> TRUE, val |-> <<>>]
                          ELSE [kind |-> "Some", signed |-> TRUE, val |-> product[1]]
                 ELSE unsigned
        ELSE unsigned

\* NumberEnricher::enrich: the loop from index on
RECURSIVE NumberEnrichLoop(_, _, _)
NumberEnrichLoop(sentence, index, overflow_checks) ==
    IF index >= Len(sentence.tokens)
    THEN [kind |-> "Ok", sentence |-> sentence]
    ELSE
      LET number == NumberAt(sentence, index, overflow_checks)
      IN  IF number.kind = "Panic" THEN [kind |-> "Panic", sentence |-> sentence]
          ELSE IF number.kind = "None"
          THEN NumberEnrichLoop(sentence, index + 1, overflow_checks)
          ELSE IF number.signed
          THEN NumberEnrichLoop(
                 [sentence EXCEPT
                    !.tokens[index + 1] =
                        add_meta(add_meta(@, VALUE, MetaI64(number.val)),
                                 SIGN_INDEX, MetaUsize(index - 1)),
                    !.tokens[index] = add_meta(@, NUMBER_INDEX, MetaUsize(index))],
                 index + 1, overflow_checks)
          ELSE NumberEnrichLoop(
                 [sentence EXCEPT
                    !.tokens[index + 1] = add_meta(@, VALUE, MetaU64(number.val))],
                 index + 1, overflow_checks)

\* enrich recording the value of a number after a minus token as Meta::U64
\* (the magnitude) while still writing its sign index
NumberEnrichUntagged(sentence, overflow_checks) ==
    LET r == NumberEnrichLoop(sentence, 0, overflow_checks)
    IN  [r EXCEPT !.sentence.tokens =
            [k \in 1..Len(r.sentence.tokens) |->
                IF has_meta(r.sentence.tokens[k], SIGN_INDEX)
                THEN add_meta(r.sentence.tokens[k], VALUE,
                              MetaU64(r.sentence.tokens[k].meta[VALUE].val.mag))
                ELSE r.sentence.tokens[k]]]

\* enrich folding each sign token into its number: the tokens that carry a
\* number index are removed from the sentence
IsNotSign(token) == ~has_meta(token, NUMBER_INDEX)

NumberEnrichMerged(sentence, overflow_checks) ==
    LET r == NumberEnrichLoop(sentence, 0, overflow_checks)
    IN  [r EXCEPT !.sentence.tokens = SelectSeq(@, IsNotSign)]

NumberEnrich(sentence, overflow_checks) == NumberEnrichLoop(sentence, 0, overflow_checks)

\* NumberEnricher::extract: the loop from index on; numbers is the list so
\* far.  Meta::as_usize, as_i64 and as_u64 panic on another variant.
RECURSIVE NumberExtractLoop(_, _, _)
NumberExtractLoop(sentence, index, numbers) ==
    IF index >= Len(sentence.tokens) THEN [kind |-> "Ok", numbers |-> numbers]
    ELSE
      LET token == sentence.tokens[index + 1]
      IN  IF ~has_meta(token, VALUE)
          THEN NumberExtractLoop(sentence, index + 1, numbers)
          ELSE
            LET value == token.meta[VALUE]
            IN  IF has_meta(token, SIGN_INDEX)
                THEN LET sign == token.meta[SIGN_INDEX]
                     IN  IF sign.tag # "Usize" \/ value.tag # "I64"
                         THEN [kind |-> "Panic", numbers |-> numbers]
                         ELSE NumberExtractLoop(sentence, index + 1,
                                Append(numbers,
                                  [loc |-> Loc(sign.val, 2),
                                   number |-> [signed |-> TRUE, val |-> value.val]]))
                ELSE IF value.tag # "U64"
                     THEN [kind |-> "Panic", numbers |-> numbers]
                     ELSE NumberExtractLoop(sentence, index + 1,
                            Append(numbers,
                              [loc |-> Loc(index, 1),
                               number |-> [signed |-> FALSE, val |-> value.val]]))

\* extract reporting a signed number at the number token instead of at its
\* sign token
NumberExtractAtNumber(sentence) ==
    LET r == NumberExtractLoop(sentence, 0, <<>>)
    IN  [r EXCEPT !.numbers =
            [n \in 1..Len(r.numbers) |->
                IF r.numbers[n].number.signed
                THEN [r.numbers[n] EXCEPT !.loc = Loc(@.start_index + 1, 2)]
                ELSE r.numbers[n]]]

NumberExtract(sentence) == NumberExtractLoop(sentence, 0, <<>>)

\* -------------------------------------------------------------------------
\* Dictionary, LocalDictionary, Empty (dictionary.rs)
\*
\* A LocalDictionary is [dictionary, strong, inner]: the set behind the
\* Arc<HashSet<String>>, the strong count of that Arc (1: this dictionary is
\* its only holder; more: clones of the dictionary alias the set), and the
\* inner dictionary: <<>> for None, <<d>> for Some(d).  An inner dictionary is
\* Empty or a backing store the host supplies, which holds a set of words and
\* whose write may fail.
\* -------------------------------------------------------------------------
Empty == [kind |-> "Empty", words |-> {}]

BackingStore(words) == [kind |-> "Backing", words |-> words]

\* LocalDictionary::new
LocalDictionaryNew(data) == [dictionary |-> data, strong |-> 1, inner |-> <<>>]

\* LocalDictionary::with_inner
LocalDictionaryWithInner(inner) == [dictionary |-> {}, strong |-> 1, inner |-> <<inner>>]

\* LocalDictionary::clone: the clone shares the Arc of the set
LocalDictionaryClone(d) == [d EXCEPT !.strong = @ + 1]

\* LocalDictionary::contains
Contains(d, word) == word \in d.dictionary

\* add of the inner dictionary D; faults are the words whose write the
\* backing store refuses in this call
InnerAdd(inner, word, faults) ==
    IF inner.kind = "Empty" THEN [kind |-> "Ok", inner |-> inner]
    ELSE IF word \in faults THEN [kind |-> "Err", inner |-> inner]
    ELSE [kind |-> "Ok", inner |-> [inner EXCEPT !.words = @ \cup {word}]]

ExclusiveAccessError == [type |-> "Msg", text |-> "Unexpected error."]
BackingStoreError == [type |-> "Backing", text |-> "inner"]
StopWordError(stop_word) == [type |-> "StopWord", text |-> stop_word]

\* add that takes the set without asking whether the Arc has another holder
LocalDictionaryAddUnchecked(d, word, faults) ==
    IF word \notin d.dictionary
    THEN LET inserted == [d EXCEPT !.dictionary = @ \cup {word}]
         IN  IF d.inner # <<>>
             THEN LET r == InnerAdd(d.inner[1], word, faults)
                  IN  IF r.kind = "Err"
                      THEN [kind |-> "Err", added |-> FALSE,
                            error |-> <<BackingStoreError>>, dict |-> inserted]
                      ELSE [kind |-> "Ok", added |-> TRUE, error |-> <<>>,
                            dict |-> [inserted EXCEPT !.inner = <<r.inner>>]]
             ELSE [kind |-> "Ok", added |-> TRUE, error |-> <<>>, dict |-> inserted]
    ELSE [kind |-> "Ok", added |-> FALSE, error |-> <<>>, dict |-> d]

\* LocalDictionary::add
LocalDictionaryAdd(d, word, faults) ==
    IF d.strong > 1
    THEN [kind |-> "Err", added |-> FALSE, error |-> <<ExclusiveAccessError>>, dict |-> d]
    ELSE IF word \notin d.dictionary
    THEN LET inserted == [d EXCEPT !.dictionary = @ \cup {word}]
         IN  IF d.inner # <<>>
             THEN LET r == InnerAdd(d.inner[1], word, faults)
                  IN  IF r.kind = "Err"
                      THEN [kind |-> "Err", added |-> FALSE,
                            error |-> <<BackingStoreError>>, dict |-> inserted]
                      ELSE [kind |-> "Ok", added |-> TRUE, error |-> <<>>,
                            dict |-> [inserted EXCEPT !.inner = <<r.inner>>]]
             ELSE [kind |-> "Ok", added |-> TRUE, error |-> <<>>, dict |-> inserted]
    ELSE [kind |-> "Ok", added |-> FALSE, error |-> <<>>, dict |-> d]

\* LocalDictionary::get_all
GetAll(d) == d.dictionary

\* sync that merges the snapshot of the inner dictionary into the set
LocalDictionarySyncMerge(d, fault) ==
    IF d.inner # <<>>
    THEN IF fault /\ d.inner[1].kind = "Backing"
         THEN [kind |-> "Err", error |-> <<BackingStoreError>>, dict |-> d]
         ELSE [kind |-> "Ok", error |-> <<>>,
               dict |-> [d EXCEPT !.dictionary = @ \cup d.inner[1].words, !.strong = 1]]
    ELSE [kind |-> "Ok", error |-> <<>>, dict |-> d]

\* LocalDictionary::sync; fault: the inner get_all fails.  The new Arc has
\* this dictionary as its only holder.
LocalDictionarySync(d, fault) ==
    IF d.inner # <<>>
    THEN IF fault /\ d.inner[1].kind = "Backing"
         THEN [kind |-> "Err", error |-> <<BackingStoreError>>, dict |-> d]
         ELSE [kind |-> "Ok", error |-> <<>>,
               dict |-> [d EXCEPT !.dictionary = d.inner[1].words, !.strong = 1]]
    ELSE [kind |-> "Ok", error |-> <<>>, dict |-> d]

\* -------------------------------------------------------------------------
\* StopWordEnricher (enricher/stop_word.rs)
\* -------------------------------------------------------------------------
STOP_WORD == "stop_word"

NumberEnricher == [kind |-> "Number"]

\* StopWordEnricher::new
StopWordEnricherNew(dictionary, brake_on_stop_word) ==
    [kind |-> "StopWord", dictionary |-> dictionary,
     brake_on_stop_word |-> brake_on_stop_word]

\* StopWordEnricher::enrich: the loop from index on
RECURSIVE StopWordEnrichLoop(_, _, _)
StopWordEnrichLoop(enricher, sentence, index) ==
    IF index >= Len(sentence.tokens)
    THEN [kind |-> "Ok", sentence |-> sentence, error |-> <<>>]
    ELSE
      LET token == sentence.tokens[index + 1]
      IN  IF Contains(enricher.dictionary, token.val)
          THEN IF enricher.brake_on_stop_word
               THEN [kind |-> "Err", sentence |-> sentence,
                     error |-> <<StopWordError(by_loc(sentence, token.loc))>>]
               ELSE StopWordEnrichLoop(enricher,
                      [sentence EXCEPT
                         !.tokens[index + 1] = add_meta(@, STOP_WORD, MetaBool(TRUE))],
                      index + 1)
          ELSE StopWordEnrichLoop(enricher, sentence, index + 1)

\* enrich reporting the value of the token (lower-cased and stemmed) instead
\* of the substring of the raw text
StopWordEnrichValue(enricher, sentence) ==
    LET r == StopWordEnrichLoop(enricher, sentence, 0)
        hits == {k \in 1..Len(sentence.tokens) :
                    Contains(enricher.dictionary, sentence.tokens[k].val)}
        first == CHOOSE k \in hits : \A j \in hits : k <= j
    IN  IF r.kind = "Err"
        THEN [r EXCEPT !.error = <<StopWordError(sentence.tokens[first].val)>>]
        ELSE r

StopWordEnrich(enricher, sentence) == StopWordEnrichLoop(enricher, sentence, 0)

\* StopWordEnricher::update: the loop from index on
RECURSIVE StopWordUpdateLoop(_, _, _, _)
StopWordUpdateLoop(enricher, sentence, index, faults) ==
    IF index >= Len(sentence.tokens)
    THEN [kind |-> "Ok", enricher |-> enricher, error |-> <<>>]
    ELSE
      LET token == sentence.tokens[index + 1]
      IN  IF has_meta(token, STOP_WORD)
          THEN LET r == LocalDictionaryAdd(enricher.dictionary, token.val, faults)
                   next == [enricher EXCEPT !.dictionary = r.dict]
               IN  IF r.kind = "Err"
                   THEN [kind |-> "Err", enricher |-> next, error |-> r.error]
                   ELSE StopWordUpdateLoop(next, sentence, index + 1, faults)
          ELSE StopWordUpdateLoop(enricher, sentence, index + 1, faults)

\* update inserting, for each annotated token, the substring of the raw text
\* at its span instead of its value
StopWordUpdateRaw(enricher, sentence, faults) ==
    StopWordUpdateLoop(enricher,
        [sentence EXCEPT !.tokens =
            [k \in 1..Len(sentence.tokens) |->
                [sentence.tokens[k] EXCEPT !.val = by_loc(sentence, sentence.tokens[k].loc)]]],
        0, faults)

StopWordUpdate(enricher, sentence, faults) ==
    StopWordUpdateLoop(enricher, sentence, 0, faults)

\* StopWordEnricher::extract: the loop from index on
RECURSIVE StopWordExtractLoop(_, _, _)
StopWordExtractLoop(sentence, index, locs) ==
    IF index >= Len(sentence.tokens) THEN locs
    ELSE LET token == sentence.tokens[index + 1]
         IN  IF has_meta(token, STOP_WORD)
             THEN StopWordExtractLoop(sentence, index + 1,
                    Append(locs, [loc |-> Loc(index, 1),
                                  word |-> by_loc(sentence, token.loc)]))
             ELSE StopWordExtractLoop(sentence, index + 1, locs)

\* extract pairing each annotated token with its value (lower-cased and
\* stemmed) instead of the substring of the raw text at its span
StopWordExtractValue(sentence) ==
    LET locs == StopWordExtractLoop(sentence, 0, <<>>)
    IN  [n \in 1..Len(locs) |->
            [locs[n] EXCEPT !.word = sentence.tokens[locs[n].loc.start_index + 1].val]]

StopWordExtract(sentence) == StopWordExtractLoop(sentence, 0, <<>>)

\* StopWordEnricher::sync
StopWordSync(enricher, fault) ==
    LET r == LocalDictionarySync(enricher.dictionary, fault)
    IN  [kind |-> r.kind, error |-> r.error,
         enricher |-> [enricher EXCEPT !.dictionary = r.dict]]

\* -------------------------------------------------------------------------
\* Enricher trait and Service (service.rs)
\* -------------------------------------------------------------------------
\* Enricher::enrich, dispatched on the implementation
Enrich(enricher, sentence, overflow_checks) ==
    IF enricher.kind = "Number"
    THEN LET r == NumberEnrich(sentence, overflow_checks)
         IN  [kind |-> r.kind, sentence |-> r.sentence, error |-> <<>>]
    ELSE StopWordEnrich(enricher, sentence)

\* Enricher::update, dispatched on the implementation (default: Ok(()))
Update(enricher, sentence, faults) ==
    IF enricher.kind = "Number"
    THEN [kind |-> "Ok", enricher |-> enricher, error |-> <<>>]
    ELSE StopWordUpdate(enricher, sentence, faults)

\* The loop of Service::sentence from enricher k (1-based) on.  calls is the
\* record of the enrich calls made so far: the position of the enricher in
\* the list, the enricher, the sentence it was handed, how the call ended and
\* the sentence it left.
RECURSIVE EnrichLoop(_, _, _, _, _)
EnrichLoop(pipe, k, sentence, calls, overflow_checks) ==
    IF k > Len(pipe)
    THEN [op |-> "sentence", kind |-> "Ok", sentence |-> <<sentence>>,
          error |-> <<>>, calls |-> calls]
    ELSE
      LET r == Enrich(pipe[k], sentence, overflow_checks)
          log == Append(calls, [index |-> k, enricher |-> pipe[k], given |-> sentence,
                                kind |-> r.kind, error |-> r.error,
                                left |-> r.sentence])
      IN  IF r.kind = "Ok"
          THEN EnrichLoop(pipe, k + 1, r.sentence, log, overflow_checks)
          ELSE [op |-> "sentence", kind |-> r.kind, sentence |-> <<>>,
                error |-> r.error, calls |-> log]

\* the loop of Service::sentence without the `?`: a failed enrich is dropped
\* and the loop goes on with what the enricher left
RECURSIVE EnrichLoopLenient(_, _, _, _, _)
EnrichLoopLenient(pipe, k, sentence, calls, overflow_checks) ==
    IF k > Len(pipe)
    THEN [op |-> "sentence", kind |-> "Ok", sentence |-> <<sentence>>,
          error |-> <<>>, calls |-> calls]
    ELSE
      LET r == Enrich(pipe[k], sentence, overflow_checks)
          log == Append(calls, [index |-> k, enricher |-> pipe[k], given |-> sentence,
                                kind |-> r.kind, error |-> r.error,
                                left |-> r.sentence])
      IN  EnrichLoopLenient(pipe, k + 1, r.sentence, log, overflow_checks)

ServiceSentenceLenient(pipe, msg, overflow_checks) ==
    EnrichLoopLenient(pipe, 1, NewSentence(msg, Tokenize(msg)), <<>>, overflow_checks)

\* Service::sentence iterating the list from its end
Reverse(seq) == [k \in 1..Len(seq) |-> seq[Len(seq) + 1 - k]]

ServiceSentenceReversed(pipe, msg, overflow_checks) ==
    EnrichLoop(Reverse(pipe), 1, NewSentence(msg, Tokenize(msg)), <<>>, overflow_checks)

\* Service::sentence
ServiceSentence(pipe, msg, overflow_checks) ==
    EnrichLoop(pipe, 1, NewSentence(msg, Tokenize(msg)), <<>>, overflow_checks)

\* The loop of Service::back_propagation from enricher k (1-based) on.
\* pipe carries the dictionaries as the updates made so far left them; calls
\* records each update call, with the enricher before and after it.
RECURSIVE UpdateLoop(_, _, _, _, _)
UpdateLoop(pipe, k, sentence, calls, faults) ==
    IF k > Len(pipe)
    THEN [op |-> "back_propagation", kind |-> "Ok", error |-> <<>>,
          calls |-> calls, pipe |-> pipe]
    ELSE
      LET r == Update(pipe[k], sentence, faults)
          log == Append(calls, [index |-> k, enricher |-> pipe[k], given |-> sentence,
                                kind |-> r.kind, error |-> r.error,
                                left |-> r.enricher])
          next == [pipe EXCEPT ![k] = r.enricher]
      IN  IF r.kind = "Ok"
          THEN UpdateLoop(next, k + 1, sentence, log, faults)
          ELSE [op |-> "back_propagation", kind |-> r.kind, error |-> r.error,
                calls |-> log, pipe |-> next]

\* Service::back_propagation undoing the updates made when one fails
ServiceBackPropagationRollback(pipe, sentence, faults) ==
    LET r == UpdateLoop(pipe, 1, sentence, <<>>, faults)
    IN  IF r.kind = "Ok" THEN r ELSE [r EXCEPT !.pipe = pipe]

\* Service::back_propagation
ServiceBackPropagation(pipe, sentence, faults) ==
    UpdateLoop(pipe, 1, sentence, <<>>, faults)

\* -------------------------------------------------------------------------
\* The state machine: a host that builds a Service and calls it
\* -------------------------------------------------------------------------
VARIABLES
    msg,              \* the raw text the host submits
    overflow_checks,  \* the build: TRUE with integer overflow checks (debug)
    pipeline,         \* Service.pipeline: the enrichers and their dictionaries
    registered,       \* the enrichers as add_enricher took them, in call order
    clones,           \* live clones of the Service (they share pipeline's Arc)
    held,             \* the Sentence the host holds: <<>> or <<sentence>>
    outcome,          \* what the last call returned, and the calls it made
    dicts,            \* the live LocalDictionary values: one and its clones
    arcs,             \* the HashSet each Arc<HashSet<String>> holds
    store,            \* the words in the backing store
    result,           \* the last call on a dictionary and what it returned
    lock,             \* the RwLock around the dictionary of a StopWordEnricher
    threads           \* the call each thread is in, and how far it is

serviceVars == <<msg, overflow_checks, pipeline, registered, clones, held, outcome>>
dictVars == <<dicts, arcs, store, result>>
lockVars == <<lock, threads>>

vars == <<msg, overflow_checks, pipeline, registered, clones, held, outcome,
          dicts, arcs, store, result, lock, threads>>

\* largest number of live clones of the Service
MaxClones == 1

\* largest number of live LocalDictionary values (a dictionary and its clones)
MaxHolders == 2

\* number of threads that call the Service at once
MaxThreads == 2

NoResult ==
    [op |-> "none", holder |-> 0, word |-> <<>>, kind |-> "Ok", added |-> FALSE,
     error |-> <<>>, before |-> <<>>]

\* no dictionary is handled outside the Service
NoDictionary ==
    /\ dicts = <<>>
    /\ arcs = <<>>
    /\ store = {}
    /\ result = NoResult

\* an RwLock nobody holds
FreeLock == [readers |-> {}, writer |-> <<>>]

\* one caller only: no thread is modelled
NoThreads ==
    /\ lock = FreeLock
    /\ threads = <<>>

Digits9223372036854775808 ==
    <<"9", "2", "2", "3", "3", "7", "2", "0", "3", "6", "8", "5", "4", "7", "7", "5", "8", "0", "8">>
Digits9223372036854775809 ==
    <<"9", "2", "2", "3", "3", "7", "2", "0", "3", "6", "8", "5", "4", "7", "7", "5", "8", "0", "9">>
Digits18446744073709551615 ==
    <<"1", "8", "4", "4", "6", "7", "4", "4", "0", "7", "3", "7", "0", "9", "5", "5", "1", "6", "1", "5">>
Digits18446744073709551616 ==
    <<"1", "8", "4", "4", "6", "7", "4", "4", "0", "7", "3", "7", "0", "9", "5", "5", "1", "6", "1", "6">>

\* raw texts with numbers at the edges of i64 and u64
BigNumberTexts ==
    { <<"-">> \o Digits9223372036854775808,
      <<"-">> \o Digits9223372036854775809,
      <<"-">> \o Digits18446744073709551615,
      <<"-">> \o Digits18446744073709551616,
      Digits18446744073709551615,
      MinusWord \o <<" ", "5">>,
      <<"-", "0", "5">> }

\* the raw texts submitted to a Service with enrichers
Texts ==
    { <<"w", " ", "-", "5">>,
      <<"W", " ", "w">>,
      <<"U+0130", " ", "w">>,
      <<"w", "w", "s", " ", "w", "w">>,
      <<"-">> \o Digits9223372036854775808 }

\* the enrichers a host registers: the NumberEnricher, a StopWordEnricher
\* that marks and one that aborts, both over a seeded dictionary, and one
\* that learns into an empty dictionary in front of a backing store
Enrichers ==
    { NumberEnricher,
      StopWordEnricherNew(LocalDictionaryNew({<<"w">>}), FALSE),
      StopWordEnricherNew(LocalDictionaryNew({<<"w">>}), TRUE),
      StopWordEnricherNew(LocalDictionaryWithInner(BackingStore({})), FALSE) }

NoOutcome ==
    [op |-> "none", kind |-> "Ok", sentence |-> <<>>, error |-> <<>>, calls |-> <<>>]

\* Service::new, and a host about to submit one of Texts
Init ==
    /\ msg \in Texts
    /\ overflow_checks \in BOOLEAN
    /\ pipeline = <<>>
    /\ registered = <<>>
    /\ clones = 0
    /\ held = <<>>
    /\ outcome = NoOutcome
    /\ NoDictionary
    /\ NoThreads

\* Service::add_enricher: Arc::get_mut gives the list only to its one holder
AddEnricher(enricher) ==
    /\ Len(pipeline) < MaxPipeline
    /\ pipeline' = IF clones = 0 THEN Append(pipeline, enricher) ELSE pipeline
    /\ registered' = IF clones = 0 THEN Append(registered, enricher) ELSE registered
    /\ outcome' = [NoOutcome EXCEPT !.op = "add_enricher"]
    /\ UNCHANGED <<msg, overflow_checks, clones, held, dictVars, lockVars>>

\* Service::clone
CloneService ==
    /\ clones < MaxClones
    /\ clones' = clones + 1
    /\ outcome' = [NoOutcome EXCEPT !.op = "clone"]
    /\ UNCHANGED <<msg, overflow_checks, pipeline, registered, held, dictVars, lockVars>>

\* a clone of the Service is dropped
DropService ==
    /\ clones > 0
    /\ clones' = clones - 1
    /\ outcome' = [NoOutcome EXCEPT !.op = "drop"]
    /\ UNCHANGED <<msg, overflow_checks, pipeline, registered, held, dictVars, lockVars>>

\* Service::sentence(msg); the host keeps the Sentence it gets
Sentence ==
    /\ outcome' = ServiceSentence(pipeline, msg, overflow_checks)
    /\ held' = outcome'.sentence
    /\ UNCHANGED <<msg, overflow_checks, pipeline, registered, clones, dictVars, lockVars>>

\* the host marks the tokens at the positions (0-based) as stop words, as
\* through Sentence::tokens_mut and Token::add_meta
Flag(sentence, positions) ==
    [sentence EXCEPT !.tokens =
        [k \in 1..Len(sentence.tokens) |->
            IF (k - 1) \in positions
            THEN add_meta(sentence.tokens[k], STOP_WORD, MetaBool(TRUE))
            ELSE sentence.tokens[k]]]

\* the values of the tokens of a sentence
Values(sentence) == {sentence.tokens[k].val : k \in 1..Len(sentence.tokens)}

\* the writes the backing stores may refuse during one call: none, or those
\* of one word of the sentence (no choice without a backing store)
Faults(pipe, sentence) ==
    IF \E k \in 1..Len(pipe) :
          /\ pipe[k].kind = "StopWord"
          /\ pipe[k].dictionary.inner # <<>>
          /\ pipe[k].dictionary.inner[1].kind = "Backing"
    THEN {{}} \cup {{v} : v \in Values(sentence)}
    ELSE {{}}

\* Service::back_propagation(sentence) with the held Sentence, which the
\* host has marked at some positions; the call consumes the Sentence
BackPropagation ==
    /\ held # <<>>
    /\ \E positions \in SUBSET (0..(Len(held[1].tokens) - 1)),
          faults \in Faults(pipeline, held[1]) :
          LET r == ServiceBackPropagation(pipeline, Flag(held[1], positions), faults)
          IN  /\ pipeline' = r.pipe
              /\ outcome' = [op |-> r.op, kind |-> r.kind, sentence |-> <<>>,
                             error |-> r.error, calls |-> r.calls]
    /\ held' = <<>>
    /\ UNCHANGED <<msg, overflow_checks, registered, clones, dictVars, lockVars>>

\* a host that owns its Service alone: it registers enrichers, submits the
\* text and feeds the Sentence back
Next ==
    \/ \E enricher \in Enrichers : AddEnricher(enricher)
    \/ Sentence
    \/ BackPropagation

Spec == Init /\ [][Next]_vars

\* The tokenizer alone, as in test_tokenization: a Service without enrichers
\* and every raw text of at most MaxLen characters (no arithmetic: the build
\* makes no difference)
InitTokenize ==
    /\ msg \in StringsUpTo(Alphabet, MaxLen)
    /\ overflow_checks = FALSE
    /\ pipeline = <<>>
    /\ registered = <<>>
    /\ clones = 0
    /\ held = <<>>
    /\ outcome = NoOutcome
    /\ NoDictionary
    /\ NoThreads

NextTokenize == Sentence

SpecTokenize == InitTokenize /\ [][NextTokenize]_vars

\* The NumberEnricher alone, as in test_number: a Service with the one
\* enricher, and every raw text of at most MaxLen characters of
\* NumberAlphabet or with a number at the edge of the integer types
NumberAlphabet == {"5", "0", "-", "+", " ", "w", "U+00B2"}

InitNumber ==
    /\ msg \in StringsUpTo(NumberAlphabet, MaxLen) \cup BigNumberTexts
    /\ overflow_checks \in BOOLEAN
    /\ pipeline = <<NumberEnricher>>
    /\ registered = <<NumberEnricher>>
    /\ clones = 0
    /\ held = <<>>
    /\ outcome = NoOutcome
    /\ NoDictionary
    /\ NoThreads

NextNumber == Sentence

SpecNumber == InitNumber /\ [][NextNumber]_vars

\* The StopWordEnricher alone, as in test_stop_words_break_pipeline and
\* test_stop_words: a Service with the one enricher over a seeded dictionary,
\* aborting or not, and every raw text of at most MaxLen characters
Seeds ==
    { {<<"w">>, <<"s">>},
      {<<"w", "w">>, <<"5">>, <<"-">>, <<"i", "U+0307">>} }

InitStopWord ==
    /\ msg \in StringsUpTo(Alphabet, MaxLen)
    /\ overflow_checks = FALSE
    /\ \E seed \in Seeds, brake \in BOOLEAN :
          pipeline = <<StopWordEnricherNew(LocalDictionaryNew(seed), brake)>>
    /\ registered = pipeline
    /\ clones = 0
    /\ held = <<>>
    /\ outcome = NoOutcome
    /\ NoDictionary
    /\ NoThreads

NextStopWord == Sentence

SpecStopWord == InitStopWord /\ [][NextStopWord]_vars

\* Learning, as in test_add_stop_words: a Service with one StopWordEnricher
\* that does not abort, over an empty dictionary without a backing store.
\* The host submits a raw text of at most MaxLen characters, marks tokens of
\* the Sentence, feeds it back and submits the text again.
LearnAlphabet == {"w", "W", "s", " ", "-"}

InitLearn ==
    /\ msg \in StringsUpTo(LearnAlphabet, MaxLen)
    /\ overflow_checks = FALSE
    /\ pipeline = <<StopWordEnricherNew(LocalDictionaryNew({}), FALSE)>>
    /\ registered = pipeline
    /\ clones = 0
    /\ held = <<>>
    /\ outcome = NoOutcome
    /\ NoDictionary
    /\ NoThreads

NextLearn == Sentence \/ BackPropagation

SpecLearn == InitLearn /\ [][NextLearn]_vars

\* Pipelines with the NumberEnricher once or more, possibly with
\* StopWordEnricher stages that mark the tokens "-" and "5": every list of
\* at most MaxPipeline such enrichers, and the raw texts of SpecNumber
NumberStages ==
    { NumberEnricher,
      StopWordEnricherNew(LocalDictionaryNew({<<"-">>, <<"5">>}), FALSE) }

NumberPipelines ==
    {pipe \in UNION {[1..n -> NumberStages] : n \in 1..MaxPipeline} :
        \E k \in 1..Len(pipe) : pipe[k] = NumberEnricher}

InitNumberStages ==
    /\ msg \in StringsUpTo(NumberAlphabet, MaxLen) \cup BigNumberTexts
    /\ overflow_checks \in BOOLEAN
    /\ pipeline \in NumberPipelines
    /\ registered = pipeline
    /\ clones = 0
    /\ held = <<>>
    /\ outcome = NoOutcome
    /\ NoDictionary
    /\ NoThreads

NextNumberStages == Sentence

SpecNumberStages == InitNumberStages /\ [][NextNumberStages]_vars

\* A Service that is cloned, as for use from several threads: the host
\* registers enrichers, clones the Service and drops clones, in any order
NextShared ==
    \/ \E enricher \in Enrichers : AddEnricher(enricher)
    \/ CloneService
    \/ DropService

SpecShared == Init /\ [][NextShared]_vars

\* -------------------------------------------------------------------------
\* The dictionaries alone: a host that holds a LocalDictionary and clones of
\* it and calls add and sync on them.  A clone shares the Arc of the set
\* until one of the two replaces its own (sync).  The backing store is the
\* host's one persistent store: the inner dictionary of every clone is a
\* handle to it.
\* -------------------------------------------------------------------------
\* the words the host adds
DictWords == {<<"w">>, <<"s">>}

\* the dictionaries the host starts from
DictSeeds ==
    { LocalDictionaryNew({}),
      LocalDictionaryNew({<<"w">>}),
      LocalDictionaryWithInner(Empty),
      LocalDictionaryWithInner(BackingStore({})),
      LocalDictionaryWithInner(BackingStore({<<"s">>})) }

ArcIds == 1..MaxHolders

\* the kind of the inner dictionary of a LocalDictionary value
InnerKind(d) == IF d.inner = <<>> THEN "None" ELSE d.inner[1].kind

\* the holders of the Arc that holder h holds (h included)
Sharers(ds, h) == {j \in 1..Len(ds) : ds[j].arc = ds[h].arc}

\* the LocalDictionary value holder h has: the set of its Arc, the strong
\* count of that Arc and its inner dictionary
View(ds, as, st, h) ==
    [dictionary |-> as[ds[h].arc],
     strong |-> Cardinality(Sharers(ds, h)),
     inner |-> IF ds[h].inner = "None" THEN <<>>
               ELSE IF ds[h].inner = "Empty" THEN <<Empty>>
               ELSE <<BackingStore(st)>>]

\* what a call found: the value it was made on and the state of all holders
Before(h) ==
    <<[view |-> View(dicts, arcs, store, h), dicts |-> dicts, arcs |-> arcs,
       store |-> store]>>

InitDictionary ==
    /\ msg = <<>>
    /\ overflow_checks = FALSE
    /\ pipeline = <<>>
    /\ registered = <<>>
    /\ clones = 0
    /\ held = <<>>
    /\ outcome = NoOutcome
    /\ \E d \in DictSeeds :
          /\ dicts = <<[arc |-> 1, inner |-> InnerKind(d)]>>
          /\ arcs = [a \in ArcIds |-> IF a = 1 THEN d.dictionary ELSE {}]
          /\ store = IF InnerKind(d) = "Backing" THEN d.inner[1].words ELSE {}
    /\ result = NoResult
    /\ NoThreads

\* LocalDictionary::add(word) on holder h; fault: the backing store refuses
\* the write
DictAdd(h, word, fault) ==
    /\ h \in 1..Len(dicts)
    /\ fault => dicts[h].inner = "Backing"
    /\ LET r == LocalDictionaryAdd(View(dicts, arcs, store, h), word,
                                   IF fault THEN {word} ELSE {})
       IN  /\ arcs' = [arcs EXCEPT ![dicts[h].arc] = r.dict.dictionary]
           /\ store' = IF dicts[h].inner = "Backing" THEN r.dict.inner[1].words ELSE store
           /\ result' = [op |-> "add", holder |-> h, word |-> word, kind |-> r.kind,
                         added |-> r.added, error |-> r.error, before |-> Before(h)]
    /\ UNCHANGED <<dicts, serviceVars, lockVars>>

\* the smallest id no holder uses: the Arc a sync allocates
FreeArc == CHOOSE a \in ArcIds :
              /\ \A j \in 1..Len(dicts) : dicts[j].arc # a
              /\ \A b \in 1..(a - 1) : \E j \in 1..Len(dicts) : dicts[j].arc = b

\* LocalDictionary::sync on holder h; fault: get_all of the backing store
\* fails.  The holder gets a new Arc; the Arc it held goes on with its other
\* holders or is freed.
DictSync(h, fault) ==
    /\ h \in 1..Len(dicts)
    /\ fault => dicts[h].inner = "Backing"
    /\ LET d == View(dicts, arcs, store, h)
           r == LocalDictionarySync(d, fault)
           replaced == r.kind = "Ok" /\ d.inner # <<>>
           a == IF d.strong = 1 THEN dicts[h].arc ELSE FreeArc
       IN  /\ dicts' = IF replaced THEN [dicts EXCEPT ![h].arc = a] ELSE dicts
           /\ arcs' = IF replaced THEN [arcs EXCEPT ![a] = r.dict.dictionary] ELSE arcs
           /\ result' = [op |-> "sync", holder |-> h, word |-> <<>>, kind |-> r.kind,
                         added |-> FALSE, error |-> r.error, before |-> Before(h)]
    /\ UNCHANGED <<store, serviceVars, lockVars>>

\* LocalDictionary::clone of holder h
DictClone(h) ==
    /\ h \in 1..Len(dicts)
    /\ Len(dicts) < MaxHolders
    /\ dicts' = Append(dicts, dicts[h])
    /\ result' = [NoResult EXCEPT !.op = "clone", !.holder = h, !.before = Before(h)]
    /\ UNCHANGED <<arcs, store, serviceVars, lockVars>>

\* holder h is dropped; the last holder of an Arc frees its set
DictDrop(h) ==
    /\ h \in 1..Len(dicts)
    /\ Len(dicts) > 1
    /\ dicts' = [j \in 1..(Len(dicts) - 1) |-> IF j < h THEN dicts[j] ELSE dicts[j + 1]]
    /\ arcs' = IF Sharers(dicts, h) = {h} THEN [arcs EXCEPT ![dicts[h].arc] = {}] ELSE arcs
    /\ result' = [NoResult EXCEPT !.op = "drop", !.holder = h, !.before = Before(h)]
    /\ UNCHANGED <<store, serviceVars, lockVars>>

NextDictionary ==
    \/ \E h \in 1..MaxHolders, word \in DictWords, fault \in BOOLEAN : DictAdd(h, word, fault)
    \/ \E h \in 1..MaxHolders, fault \in BOOLEAN : DictSync(h, fault)
    \/ \E h \in 1..MaxHolders : DictClone(h)
    \/ \E h \in 1..MaxHolders : DictDrop(h)

SpecDictionary == InitDictionary /\ [][NextDictionary]_vars

\* -------------------------------------------------------------------------
\* Threads: MaxThreads threads call sentence, back_propagation and sync of
\* one StopWordEnricher at once (the Service and the enricher are shared or
\* cloned: every clone holds the same Arc<RwLock<D>>).  A step of a thread is
\* the acquisition of the lock, one iteration of the loop of enrich or
\* update, or the return, which drops the guard.
\* -------------------------------------------------------------------------
IdleThread ==
    [op |-> "idle", pc |-> "idle", index |-> 0, sentence |-> <<>>, seen |-> <<>>,
     kind |-> "Ok"]

\* the raw text the threads submit
LockTexts == { <<"w", " ", "s">> }

InitThreads ==
    /\ msg \in LockTexts
    /\ overflow_checks = FALSE
    /\ \E brake \in BOOLEAN :
          pipeline = <<StopWordEnricherNew(
                          LocalDictionaryWithInner(BackingStore({<<"w">>})), brake)>>
    /\ registered = pipeline
    /\ clones = 0
    /\ held = <<>>
    /\ outcome = NoOutcome
    /\ NoDictionary
    /\ lock = FreeLock
    /\ threads = [t \in 1..MaxThreads |-> IdleThread]

\* RwLock::read returns when no writer holds the lock
ReadAvailableAlways(l) == TRUE

ReadAvailable(l) == l.writer = <<>>

\* RwLock::write returns when nobody holds the lock
WriteAvailable(l) == l.writer = <<>> /\ l.readers = {}

\* Service::sentence(msg): tokenize, then call enrich
CallSentence(t) ==
    /\ threads[t].pc = "idle"
    /\ threads' = [threads EXCEPT ![t] =
          [IdleThread EXCEPT !.op = "sentence", !.pc = "lock",
                             !.sentence = <<NewSentence(msg, Tokenize(msg))>>]]
    /\ UNCHANGED <<lock, serviceVars, dictVars>>

\* StopWordEnricher::enrich: self.dictionary.read().unwrap()
ReadLock(t) ==
    /\ threads[t].op = "sentence"
    /\ threads[t].pc = "lock"
    /\ ReadAvailable(lock)
    /\ lock' = [lock EXCEPT !.readers = @ \cup {t}]
    /\ threads' = [threads EXCEPT ![t].pc = "loop", ![t].index = 0,
                                  ![t].seen = <<pipeline[1].dictionary>>]
    /\ UNCHANGED <<serviceVars, dictVars>>

\* StopWordEnricher::enrich: one iteration of the loop; the return of the
\* error drops the read guard
EnrichToken(t) ==
    /\ threads[t].op = "sentence"
    /\ threads[t].pc = "loop"
    /\ threads[t].index < Len(threads[t].sentence[1].tokens)
    /\ LET sentence == threads[t].sentence[1]
           index == threads[t].index
           token == sentence.tokens[index + 1]
       IN  IF Contains(pipeline[1].dictionary, token.val)
           THEN IF pipeline[1].brake_on_stop_word
                THEN /\ threads' = [threads EXCEPT ![t].pc = "done", ![t].kind = "Err"]
                     /\ lock' = [lock EXCEPT !.readers = @ \ {t}]
                ELSE /\ threads' = [threads EXCEPT
                           ![t].sentence[1].tokens[index + 1] =
                               add_meta(@, STOP_WORD, MetaBool(TRUE)),
                           ![t].index = index + 1]
                     /\ lock' = lock
           ELSE /\ threads' = [threads EXCEPT ![t].index = index + 1]
                /\ lock' = lock
    /\ UNCHANGED <<serviceVars, dictVars>>

\* StopWordEnricher::enrich: Ok(()) after the last token; the read guard
\* is dropped
EnrichReturn(t) ==
    /\ threads[t].op = "sentence"
    /\ threads[t].pc = "loop"
    /\ threads[t].index >= Len(threads[t].sentence[1].tokens)
    /\ threads' = [threads EXCEPT ![t].pc = "done", ![t].kind = "Ok"]
    /\ lock' = [lock EXCEPT !.readers = @ \ {t}]
    /\ UNCHANGED <<serviceVars, dictVars>>

\* Service::back_propagation(sentence) with a Sentence of the text that the
\* host marked at the positions
CallBackPropagation(t, positions) ==
    /\ threads[t].pc = "idle"
    /\ threads' = [threads EXCEPT ![t] =
          [IdleThread EXCEPT !.op = "back_propagation", !.pc = "lock",
             !.sentence = <<Flag(NewSentence(msg, Tokenize(msg)), positions)>>]]
    /\ UNCHANGED <<lock, serviceVars, dictVars>>

\* StopWordEnricher::sync called by the host
CallSync(t) ==
    /\ threads[t].pc = "idle"
    /\ threads' = [threads EXCEPT ![t] = [IdleThread EXCEPT !.op = "sync", !.pc = "lock"]]
    /\ UNCHANGED <<lock, serviceVars, dictVars>>

\* StopWordEnricher::update and sync: self.dictionary.write().unwrap()
WriteLock(t) ==
    /\ threads[t].op \in {"back_propagation", "sync"}
    /\ threads[t].pc = "lock"
    /\ WriteAvailable(lock)
    /\ lock' = [lock EXCEPT !.writer = <<t>>]
    /\ threads' = [threads EXCEPT ![t].pc = "loop", ![t].index = 0]
    /\ UNCHANGED <<serviceVars, dictVars>>

\* StopWordEnricher::update: one iteration of the loop; fault: the backing
\* store refuses the write.  The return of the error drops the write guard.
UpdateToken(t, fault) ==
    /\ threads[t].op = "back_propagation"
    /\ threads[t].pc = "loop"
    /\ threads[t].index < Len(threads[t].sentence[1].tokens)
    /\ LET token == threads[t].sentence[1].tokens[threads[t].index + 1]
           r == LocalDictionaryAdd(pipeline[1].dictionary, token.val,
                                   IF fault THEN {token.val} ELSE {})
       IN  IF has_meta(token, STOP_WORD)
           THEN /\ pipeline' = [pipeline EXCEPT ![1].dictionary = r.dict]
                /\ IF r.kind = "Err"
                   THEN /\ threads' = [threads EXCEPT ![t].pc = "done", ![t].kind = "Err"]
                        /\ lock' = [lock EXCEPT !.writer = <<>>]
                   ELSE /\ threads' = [threads EXCEPT ![t].index = @ + 1]
                        /\ lock' = lock
           ELSE /\ ~fault
                /\ threads' = [threads EXCEPT ![t].index = @ + 1]
                /\ UNCHANGED <<pipeline, lock>>
    /\ UNCHANGED <<msg, overflow_checks, registered, clones, held, outcome, dictVars>>

\* StopWordEnricher::update: Ok(()) after the last token; the write guard
\* is dropped
UpdateReturn(t) ==
    /\ threads[t].op = "back_propagation"
    /\ threads[t].pc = "loop"
    /\ threads[t].index >= Len(threads[t].sentence[1].tokens)
    /\ threads' = [threads EXCEPT ![t].pc = "done", ![t].kind = "Ok"]
    /\ lock' = [lock EXCEPT !.writer = <<>>]
    /\ UNCHANGED <<serviceVars, dictVars>>

\* StopWordEnricher::sync: Dictionary::sync under the write guard, which is
\* dropped at the end of the statement; fault: get_all of the backing store
\* fails
SyncLocked(t, fault) ==
    /\ threads[t].op = "sync"
    /\ threads[t].pc = "loop"
    /\ LET r == StopWordSync(pipeline[1], fault)
       IN  /\ pipeline' = [pipeline EXCEPT ![1] = r.enricher]
           /\ threads' = [threads EXCEPT ![t].pc = "done", ![t].kind = r.kind]
    /\ lock' = [lock EXCEPT !.writer = <<>>]
    /\ UNCHANGED <<msg, overflow_checks, registered, clones, held, outcome, dictVars>>

\* the call of the thread returns to the host
ThreadReturn(t) ==
    /\ threads[t].pc = "done"
    /\ threads' = [threads EXCEPT ![t] = IdleThread]
    /\ UNCHANGED <<lock, serviceVars, dictVars>>

NextThreads ==
    \E t \in 1..MaxThreads :
        \/ CallSentence(t)
        \/ ReadLock(t)
        \/ EnrichToken(t)
        \/ EnrichReturn(t)
        \/ \E positions \in SUBSET (0..(Len(Tokenize(msg)) - 1)) :
              CallBackPropagation(t, positions)
        \/ CallSync(t)
        \/ WriteLock(t)
        \/ \E fault \in BOOLEAN : UpdateToken(t, fault)
        \/ UpdateReturn(t)
        \/ \E fault \in BOOLEAN : SyncLocked(t, fault)
        \/ ThreadReturn(t)

SpecThreads == InitThreads /\ [][NextThreads]_vars

\* -------------------------------------------------------------------------
\* The tokenizer's claims (under SpecTokenize)
\* -------------------------------------------------------------------------
\* Service::sentence returned Ok(sentence)
Returned == outcome.op = "sentence" /\ outcome.kind = "Ok"

\* the characters of the lower-cased text that a span selects
Scanned(loc) ==
    LET chars == ToLowercase(msg)
    IN  [j \in 1..loc.len |-> chars[loc.start_index + j]]

IsContent(c) == ~IsAsciiWhitespace(c) /\ ~IsAsciiPunctuation(c)

\* C1: the tokens Service::sentence returns are ordered by non-decreasing
\* span start and their spans do not overlap: a token ends (start_index +
\* len) no later than every later token starts.
C1_SpansOrdered ==
    Returned =>
        LET tokens == outcome.sentence[1].tokens
        IN  \A j, k \in 1..Len(tokens) :
                j < k =>
                    /\ tokens[j].loc.start_index <= tokens[k].loc.start_index
                    /\ tokens[j].loc.start_index + tokens[j].loc.len
                           <= tokens[k].loc.start_index

\* a sentence of three tokens, the second starting where the first ends
C1_Witness ==
    /\ Returned
    /\ Len(outcome.sentence[1].tokens) = 3
    /\ outcome.sentence[1].tokens[1].loc.len = 2
    /\ outcome.sentence[1].tokens[2].loc.start_index = 2

\* C2: for every token, the substring of the raw text that its span selects
\* (Sentence::by_loc) is, lower-cased, the run of characters handed to the
\* stemmer for that token, also when lower-casing changes the number of
\* characters.
C2_SpanSelectsRun ==
    Returned =>
        LET sentence == outcome.sentence[1]
        IN  \A k \in 1..Len(sentence.tokens) :
                ToLowercase(by_loc(sentence, sentence.tokens[k].loc))
                    = Builders(msg)[k].token

\* C3: every token is a run of numeric characters only or of non-numeric
\* characters only, its value is the stem of that run, and wherever a
\* numeric and a non-numeric content character are adjacent in the scanned
\* text one token ends and another starts between them.
C3_ClassesSplit ==
    Returned =>
        LET tokens == outcome.sentence[1].tokens
            chars == ToLowercase(msg)
        IN  /\ \A k \in 1..Len(tokens) :
                 LET run == Scanned(tokens[k].loc)
                 IN  /\ tokens[k].loc.len >= 1
                     /\ tokens[k].loc.start_index + tokens[k].loc.len <= Len(chars)
                     /\ \/ \A j \in 1..Len(run) : IsNumeric(run[j])
                        \/ \A j \in 1..Len(run) : ~IsNumeric(run[j])
                     /\ tokens[k].val = Stem(run)
            /\ \A i \in 1..(Len(chars) - 1) :
                 ( /\ IsContent(chars[i])
                   /\ IsContent(chars[i + 1])
                   /\ IsNumeric(chars[i]) # IsNumeric(chars[i + 1]) )
                 => \E k \in 1..(Len(tokens) - 1) :
                       /\ tokens[k].loc.start_index + tokens[k].loc.len = i
                       /\ tokens[k + 1].loc.start_index = i
                       /\ Scanned(tokens[k + 1].loc)[1] = chars[i + 1]

\* digits, letters and digits again without a separator: three tokens
C3_Witness ==
    /\ Returned
    /\ msg = <<"5", "w", "U+00B2">>
    /\ Len(outcome.sentence[1].tokens) = 3

\* C4: every (ASCII) punctuation character of the input is a token of its
\* own, of span length 1 at the offset of that character in the input, the
\* token before it ends at or before that offset, and no token contains an
\* (ASCII) whitespace character.
C4_PunctuationAlone ==
    Returned =>
        LET sentence == outcome.sentence[1]
            tokens == sentence.tokens
        IN  /\ \A p \in 1..Len(msg) :
                 IsAsciiPunctuation(msg[p]) =>
                    \E k \in 1..Len(tokens) :
                       /\ tokens[k].loc = Loc(p - 1, 1)
                       /\ tokens[k].val = <<msg[p]>>
                       /\ \A j \in 1..(k - 1) :
                             tokens[j].loc.start_index + tokens[j].loc.len <= p - 1
            /\ \A k \in 1..Len(tokens) :
                 /\ \A j \in 1..Len(tokens[k].val) : ~IsAsciiWhitespace(tokens[k].val[j])
                 /\ \A j \in 1..Len(by_loc(sentence, tokens[k].loc)) :
                       ~IsAsciiWhitespace(by_loc(sentence, tokens[k].loc)[j])

\* -------------------------------------------------------------------------
\* The pipeline's claims (under Spec)
\* -------------------------------------------------------------------------
\* what of an enricher never changes: its kind, whether it aborts, whether
\* its dictionary has a backing store
Shape(enricher) ==
    IF enricher.kind = "Number" THEN <<"Number", FALSE, FALSE>>
    ELSE <<"StopWord", enricher.brake_on_stop_word, enricher.dictionary.inner # <<>>>>

\* C5: Service::sentence is all-or-nothing.  The first enrich that fails is
\* the last one called, and the caller gets its error and no sentence; a
\* sentence is returned only when every registered enricher was called and
\* succeeded, and it is the sentence the last of them left.
C5_AllOrNothing ==
    outcome.op = "sentence" =>
        LET calls == outcome.calls
            n == Len(calls)
        IN  /\ \A j \in 1..(n - 1) : calls[j].kind = "Ok"
            /\ outcome.kind = "Ok" =>
                 /\ n = Len(pipeline)
                 /\ \A j \in 1..n : calls[j].kind = "Ok"
                 /\ outcome.sentence =
                        <<IF n = 0 THEN NewSentence(msg, Tokenize(msg)) ELSE calls[n].left>>
                 /\ held = outcome.sentence
            /\ outcome.kind # "Ok" =>
                 /\ n >= 1
                 /\ calls[n].kind = outcome.kind
                 /\ calls[n].error = outcome.error
                 /\ outcome.sentence = <<>>
                 /\ held = <<>>

\* the first of two enrichers marked a token, the second failed: the marks
\* are lost with the sentence
C5_Witness ==
    /\ outcome.op = "sentence"
    /\ outcome.kind = "Err"
    /\ Len(outcome.calls) = 2
    /\ outcome.calls[1].left # outcome.calls[1].given

\* C6: Service::sentence calls enrich on the registered enrichers in the
\* order of their registration, each at most once: the j-th call is to the
\* j-th registered enricher, it is handed the tokenized text (j = 1) or the
\* sentence the call before it left, and it is made only when every call
\* before it succeeded.
C6_RegistrationOrder ==
    outcome.op = "sentence" =>
        LET calls == outcome.calls
            n == Len(calls)
        IN  /\ n <= Len(registered)
            /\ Len(pipeline) = Len(registered)
            /\ outcome.kind = "Ok" => n = Len(registered)
            /\ \A j \in 1..n :
                 /\ calls[j].index = j
                 /\ Shape(calls[j].enricher) = Shape(registered[j])
                 /\ calls[j].enricher = pipeline[j]
                 /\ calls[j].given =
                        IF j = 1 THEN NewSentence(msg, Tokenize(msg)) ELSE calls[j - 1].left
                 /\ j > 1 => calls[j - 1].kind = "Ok"

\* two different enrichers were called, the second on what the first left
C6_Witness ==
    /\ outcome.op = "sentence"
    /\ Len(outcome.calls) = 2
    /\ Shape(registered[1]) # Shape(registered[2])
    /\ outcome.calls[1].left # outcome.calls[1].given

\* C7: Service::back_propagation calls update on the registered enrichers in
\* registration order; when an update fails the caller gets its error, no
\* later update is called, and the dictionaries stay as the calls made left
\* them: what the earlier updates inserted is still there.
C7_NoRollback ==
    outcome.op = "back_propagation" =>
        LET calls == outcome.calls
            n == Len(calls)
        IN  /\ n <= Len(pipeline)
            /\ outcome.kind = "Ok" => n = Len(pipeline)
            /\ \A j \in 1..n :
                 /\ calls[j].index = j
                 /\ Shape(calls[j].enricher) = Shape(registered[j])
                 /\ j < n => calls[j].kind = "Ok"
                 /\ pipeline[j] = calls[j].left
                 /\ (calls[j].kind = "Ok" /\ calls[j].enricher.kind = "StopWord") =>
                       \A k \in 1..Len(calls[j].given.tokens) :
                          has_meta(calls[j].given.tokens[k], STOP_WORD) =>
                             Contains(pipeline[j].dictionary, calls[j].given.tokens[k].val)
            /\ outcome.kind # "Ok" =>
                 /\ n >= 1
                 /\ calls[n].kind = outcome.kind
                 /\ calls[n].error = outcome.error

\* the first update inserted a word, the second failed
C7_Witness ==
    /\ outcome.op = "back_propagation"
    /\ outcome.kind = "Err"
    /\ Len(outcome.calls) = 2
    /\ outcome.calls[1].enricher.kind = "StopWord"
    /\ outcome.calls[1].left.dictionary.dictionary
           # outcome.calls[1].enricher.dictionary.dictionary

\* -------------------------------------------------------------------------
\* The enrichers' claims
\* -------------------------------------------------------------------------
IsMinus(token) == token.val = MinusSign \/ token.val = MinusWord

\* token i (0-based) of the sentence parses as a number after a minus token
AfterMinus(sentence, i) == i > 0 /\ IsMinus(sentence.tokens[i])

\* C8 (under SpecNumber): after NumberEnricher::enrich every token i whose
\* value parses as a non-negative integer m carries, when token i - 1 is "-"
\* or the word minus, the value -m and the sign index i - 1, and token i - 1
\* carries the number index i; otherwise it carries the unsigned m and no
\* sign index.  No other token carries a value, a sign index or a number
\* index: a minus token attaches only to the number right after it.
C8_SignFromLeftNeighbour ==
    Returned =>
        LET sentence == outcome.calls[1].left
            tokens == sentence.tokens
            Parses(i) == ParseU64(tokens[i + 1].val) # <<>>
        IN  \A i \in 0..(Len(tokens) - 1) :
              /\ Parses(i) /\ AfterMinus(sentence, i) =>
                   /\ VALUE \in DOMAIN tokens[i + 1].meta
                   /\ tokens[i + 1].meta[VALUE] =
                          MetaI64(I64(TRUE, ParseU64(tokens[i + 1].val)[1]))
                   /\ SIGN_INDEX \in DOMAIN tokens[i + 1].meta
                   /\ tokens[i + 1].meta[SIGN_INDEX] = MetaUsize(i - 1)
                   /\ NUMBER_INDEX \in DOMAIN tokens[i].meta
                   /\ tokens[i].meta[NUMBER_INDEX] = MetaUsize(i)
              /\ Parses(i) /\ ~AfterMinus(sentence, i) =>
                   /\ VALUE \in DOMAIN tokens[i + 1].meta
                   /\ tokens[i + 1].meta[VALUE] = MetaU64(ParseU64(tokens[i + 1].val)[1])
                   /\ SIGN_INDEX \notin DOMAIN tokens[i + 1].meta
              /\ ~Parses(i) =>
                   /\ VALUE \notin DOMAIN tokens[i + 1].meta
                   /\ SIGN_INDEX \notin DOMAIN tokens[i + 1].meta
              /\ NUMBER_INDEX \in DOMAIN tokens[i + 1].meta =>
                   /\ IsMinus(tokens[i + 1])
                   /\ i + 1 < Len(tokens)
                   /\ Parses(i + 1)

\* C9 (under SpecNumber): NumberEnricher::extract on the sentence that
\* NumberEnricher enriched returns, in token order, one entry for every token
\* that parses as a number and no other: for a number after a minus token a
\* signed number with the span (position of the sign token, 2), otherwise an
\* unsigned number with the span (position of the number token, 1); the
\* entry has the value recorded on the token.
C9_ExtractSpans ==
    Returned =>
        LET sentence == outcome.sentence[1]
            tokens == sentence.tokens
            r == NumberExtract(sentence)
            numbers == r.numbers
            \* the position of the number token of entry n
            At(n) == IF numbers[n].number.signed
                     THEN numbers[n].loc.start_index + 1
                     ELSE numbers[n].loc.start_index
        IN  /\ r.kind = "Ok"
            /\ \A n \in 1..(Len(numbers) - 1) : At(n) < At(n + 1)
            /\ {At(n) : n \in 1..Len(numbers)}
                  = {i \in 0..(Len(tokens) - 1) : ParseU64(tokens[i + 1].val) # <<>>}
            /\ \A n \in 1..Len(numbers) :
                 /\ numbers[n].number.signed = AfterMinus(sentence, At(n))
                 /\ numbers[n].loc.len = IF AfterMinus(sentence, At(n)) THEN 2 ELSE 1
                 /\ numbers[n].number.val = tokens[At(n) + 1].meta[VALUE].val

\* "5-5": an unsigned number at (0, 1), then a signed one at (1, 2)
C9_Witness ==
    /\ Returned
    /\ msg = <<"5", "-", "5">>
    /\ NumberExtract(outcome.sentence[1]).numbers =
          << [loc |-> Loc(0, 1), number |-> [signed |-> FALSE, val |-> <<5>>]],
             [loc |-> Loc(1, 2), number |-> [signed |-> TRUE, val |-> I64(TRUE, <<5>>)]] >>

\* the positions (1-based) of the tokens whose value the dictionary contains
Hits(enricher, sentence) ==
    {k \in 1..Len(sentence.tokens) : Contains(enricher.dictionary, sentence.tokens[k].val)}

\* C10 (under SpecStopWord): with a StopWordEnricher that aborts on a match,
\* Service::sentence fails for every text with a token whose value is in the
\* dictionary: no sentence is returned, and the error is the stop-word error
\* with the substring of the raw text at the span of the first such token.
C10_AbortOnStopWord ==
    outcome.op = "sentence" =>
        /\ \A j \in 1..Len(pipeline) :
             ( /\ pipeline[j].kind = "StopWord"
               /\ pipeline[j].brake_on_stop_word
               /\ Hits(pipeline[j], NewSentence(msg, Tokenize(msg))) # {} )
             => /\ outcome.kind # "Ok"
                /\ outcome.sentence = <<>>
                /\ held = <<>>
        /\ \A j \in 1..Len(outcome.calls) :
             LET call == outcome.calls[j]
                 hits == Hits(call.enricher, call.given)
             IN  ( /\ call.enricher.kind = "StopWord"
                   /\ call.enricher.brake_on_stop_word
                   /\ hits # {} )
                 => /\ outcome.kind = "Err"
                    /\ j = Len(outcome.calls)
                    /\ \E k \in hits :
                          /\ \A h \in hits : k <= h
                          /\ outcome.error =
                               <<StopWordError(by_loc(call.given, call.given.tokens[k].loc))>>

\* "W s" against {"w", "s"}: both tokens match, the error carries "W"
C10_Witness ==
    /\ outcome.op = "sentence"
    /\ outcome.kind = "Err"
    /\ msg = <<"W", " ", "s">>
    /\ outcome.error = <<StopWordError(<<"W">>)>>

\* the positions (1-based) of the tokens that carry the stop-word annotation
Marked(sentence) ==
    {k \in 1..Len(sentence.tokens) : has_meta(sentence.tokens[k], STOP_WORD)}

\* C11 (under SpecStopWord): with a StopWordEnricher that does not abort,
\* the sentence Service::sentence returns carries the stop-word annotation
\* (the boolean true) on exactly the tokens whose value the dictionary
\* contains, and StopWordEnricher::extract returns one entry for every
\* annotated token and no other, in token order, each with the span
\* (position of the token, 1) and the substring of the raw text at the span
\* of the token.
C11_MarksAndExtracts ==
    (Returned /\ ~pipeline[1].brake_on_stop_word) =>
        LET sentence == outcome.sentence[1]
            tokens == sentence.tokens
            found == StopWordExtract(sentence)
        IN  /\ Marked(sentence) = Hits(pipeline[1], NewSentence(msg, Tokenize(msg)))
            /\ \A k \in Marked(sentence) : tokens[k].meta[STOP_WORD] = MetaBool(TRUE)
            /\ {found[n].loc.start_index + 1 : n \in 1..Len(found)} = Marked(sentence)
            /\ \A n \in 1..(Len(found) - 1) :
                  found[n].loc.start_index < found[n + 1].loc.start_index
            /\ \A n \in 1..Len(found) :
                  /\ found[n].loc.len = 1
                  /\ found[n].word =
                        by_loc(sentence, tokens[found[n].loc.start_index + 1].loc)

\* "W s" against {"w", "s"}: both tokens are marked; "s" is token 1 and
\* starts at character 2, its value is "s" and "W" is reported as written
C11_Witness ==
    /\ Returned
    /\ msg = <<"W", " ", "s">>
    /\ ~pipeline[1].brake_on_stop_word
    /\ StopWordExtract(outcome.sentence[1]) =
          << [loc |-> Loc(0, 1), word |-> <<"W">>],
             [loc |-> Loc(1, 1), word |-> <<"s">>] >>

\* C19 (under Spec): enrich of the NumberEnricher and of the StopWordEnricher
\* only adds or overwrites annotations.  For every enrich call that returned
\* (Ok or Err), the sentence it left has the raw text, the number and order
\* of tokens and every token's value and span of the sentence it was given,
\* and every annotation key the token had; and the enricher, with its
\* dictionary, is after the call what it was when called.
C19_EnrichFrame ==
    outcome.op = "sentence" =>
        \A j \in 1..Len(outcome.calls) :
            LET call == outcome.calls[j]
                given == call.given
                left == call.left
            IN  /\ call.enricher = pipeline[j]
                /\ call.kind \in {"Ok", "Err"} =>
                      /\ left.raw = given.raw
                      /\ Len(left.tokens) = Len(given.tokens)
                      /\ \A k \in 1..Len(given.tokens) :
                            /\ left.tokens[k].val = given.tokens[k].val
                            /\ left.tokens[k].loc = given.tokens[k].loc
                            /\ DOMAIN given.tokens[k].meta \subseteq DOMAIN left.tokens[k].meta

\* "w -5": the NumberEnricher annotated "-" and "5", then the
\* StopWordEnricher annotated "w"
C19_Witness ==
    /\ outcome.op = "sentence"
    /\ outcome.kind = "Ok"
    /\ msg = <<"w", " ", "-", "5">>
    /\ Len(outcome.calls) = 2
    /\ outcome.calls[1].enricher.kind = "Number"
    /\ outcome.calls[2].enricher.kind = "StopWord"
    /\ has_meta(outcome.sentence[1].tokens[1], STOP_WORD)
    /\ has_meta(outcome.sentence[1].tokens[2], NUMBER_INDEX)
    /\ has_meta(outcome.sentence[1].tokens[3], VALUE)

\* C20 (under SpecNumber): for every number token after a "-" or the word
\* minus, NumberEnricher::enrich records the signed value -m, m the parsed
\* magnitude, for every m that parses as a u64 (also above 2^63 - 1), and
\* the multiplication neither overflows (a panic) nor wraps.
C20_SignedValueExact ==
    outcome.op = "sentence" =>
        /\ outcome.kind # "Panic"
        /\ outcome.kind = "Ok" =>
              LET tokens == outcome.sentence[1].tokens
              IN  \A i \in 1..(Len(tokens) - 1) :
                    (IsMinus(tokens[i]) /\ ParseU64(tokens[i + 1].val) # <<>>) =>
                        /\ has_meta(tokens[i + 1], VALUE)
                        /\ tokens[i + 1].meta[VALUE].tag = "I64"
                        /\ tokens[i + 1].meta[VALUE].val.neg
                              = (ParseU64(tokens[i + 1].val)[1] # <<0>>)
                        /\ tokens[i + 1].meta[VALUE].val.mag
                              = ParseU64(tokens[i + 1].val)[1]

\* -------------------------------------------------------------------------
\* The shared Service's claim (under SpecShared)
\* -------------------------------------------------------------------------
\* C16: add_enricher on a Service that has been cloned is disallowed, not
\* silently ignored: whenever add_enricher returns normally, the list of
\* enrichers is the list before the call with the new enricher appended.
C16_AddOnSharedRefused ==
    [][ (outcome'.op = "add_enricher" /\ outcome'.kind = "Ok") =>
            /\ Len(pipeline') = Len(pipeline) + 1
            /\ SubSeq(pipeline', 1, Len(pipeline)) = pipeline ]_vars

\* -------------------------------------------------------------------------
\* The learning round trip (under SpecLearn)
\* -------------------------------------------------------------------------
\* the token positions (0-based) that StopWordEnricher::extract reports
ExtractedPositions(sentence) ==
    LET found == StopWordExtract(sentence)
    IN  {found[n].loc.start_index : n \in 1..Len(found)}

\* back_propagation has just returned Ok, it found the dictionary empty, and
\* the host submits the text again
Relearned ==
    /\ outcome.op = "back_propagation"
    /\ outcome.kind = "Ok"
    /\ outcome.calls[1].enricher.dictionary.dictionary = {}
    /\ outcome'.op = "sentence"

\* C12: starting from an empty dictionary, after the tokens at the positions
\* P of the sentence of a raw text were marked as stop words and the
\* sentence was fed to back_propagation, Service::sentence on the same text
\* marks exactly the tokens at the positions P: extract returns those
\* positions and no others.
C12_SamePositions ==
    [][ Relearned =>
            /\ outcome'.kind = "Ok"
            /\ ExtractedPositions(outcome'.sentence[1])
                  = {k - 1 : k \in Marked(outcome.calls[1].given)} ]_vars

\* C12, amended: the new sentence marks exactly the tokens whose value is
\* the value of a token at a position in P.  These are the positions P and
\* every other position where such a value occurs again.
C12_SameValues ==
    [][ Relearned =>
            LET given == outcome.calls[1].given
            IN  /\ outcome'.kind = "Ok"
                /\ ExtractedPositions(outcome'.sentence[1])
                      = {k - 1 : k \in {i \in 1..Len(given.tokens) :
                                          \E j \in Marked(given) :
                                              given.tokens[i].val = given.tokens[j].val}}
                /\ {k - 1 : k \in Marked(given)}
                      \subseteq ExtractedPositions(outcome'.sentence[1]) ]_vars

\* "W w" was learned and submitted again: both tokens have the value "w" and
\* both are marked, whichever of them the host had marked
C12_Witness ==
    /\ Returned
    /\ msg = <<"W", " ", "w">>
    /\ pipeline[1].dictionary.dictionary = {<<"w">>}
    /\ ExtractedPositions(outcome.sentence[1]) = {0, 1}

\* -------------------------------------------------------------------------
\* The dictionaries' claims (under SpecDictionary)
\* -------------------------------------------------------------------------
\* the set holder h of the state before the last call had
MemoryBefore(h) == result.before[1].arcs[result.before[1].dicts[h].arc]

\* the set the holder of the last add or sync has now (those calls keep the
\* holders and their order)
MemoryAfter == arcs[dicts[result.holder].arc]

\* C13: add is idempotent.  The add of a word the dictionary does not hold
\* reports newly added, Ok(true); the add of a word it holds reports already
\* present, Ok(false), and changes neither the sets in memory nor the
\* backing store; add returns true exactly when the call inserted the word.
C13_AddIdempotent ==
    result.op = "add" =>
        LET held_before == result.word \in MemoryBefore(result.holder)
        IN  /\ ~held_before => (result.kind = "Ok" /\ result.added)
            /\ held_before =>
                  /\ result.kind = "Ok" /\ ~result.added
                  /\ arcs = result.before[1].arcs
                  /\ store = result.before[1].store
            /\ (result.kind = "Ok" /\ result.added)
                  <=> (~held_before /\ result.word \in MemoryAfter)

\* C14: sync on a dictionary with an inner dictionary replaces the set in
\* memory by the snapshot of the inner dictionary, it does not merge: after
\* a sync that returned Ok the holder's set (get_all, contains) is what
\* get_all of the inner dictionary answers, so the words that were only in
\* memory are gone; the backing store and the other holders' sets are as
\* they were.
C14_SyncReplaces ==
    (result.op = "sync" /\ result.kind = "Ok"
        /\ dicts[result.holder].inner # "None") =>
        LET snapshot == IF dicts[result.holder].inner = "Backing" THEN store ELSE {}
            now == View(dicts, arcs, store, result.holder)
        IN  /\ GetAll(now) = snapshot
            /\ \A word \in DictWords : Contains(now, word) <=> word \in snapshot
            /\ store = result.before[1].store
            /\ \A j \in 1..Len(dicts) :
                  j # result.holder => arcs[dicts[j].arc] = MemoryBefore(j)

\* a sync found a word in memory that the backing store does not have and
\* a word in the backing store that memory does not have: the first is
\* gone, the second is there
C14_Witness ==
    /\ result.op = "sync"
    /\ result.kind = "Ok"
    /\ dicts[result.holder].inner = "Backing"
    /\ MemoryBefore(result.holder) \ store # {}
    /\ store \ MemoryBefore(result.holder) # {}
    /\ MemoryAfter = store

\* C17: add on a dictionary whose set is aliased by a clone returns the
\* exclusive-access error and leaves the sets of all holders and the backing
\* store as they were; add on a dictionary that is the only holder of its
\* set never returns that error.
C17_AliasedAddFails ==
    result.op = "add" =>
        /\ result.before[1].view.strong > 1 =>
              /\ result.kind = "Err"
              /\ result.error = <<ExclusiveAccessError>>
              /\ arcs = result.before[1].arcs
              /\ store = result.before[1].store
              /\ dicts = result.before[1].dicts
        /\ result.before[1].view.strong = 1 =>
              result.error # <<ExclusiveAccessError>>

\* a clone was asked to add a word its set does not hold, in front of a
\* backing store: the call failed
C17_Witness ==
    /\ result.op = "add"
    /\ result.holder = 2
    /\ result.before[1].view.strong = 2
    /\ dicts[2].inner = "Backing"
    /\ result.word \notin MemoryAfter
    /\ result.kind = "Err"

\* C18: write-through.  add forwards a word to the backing store only when
\* the word is new to memory; every word add inserted in memory is in the
\* backing store after the call; and an add that fails leaves the set in
\* memory as it was.
C18_WriteThrough ==
    (result.op = "add" /\ dicts[result.holder].inner = "Backing") =>
        /\ store # result.before[1].store =>
              /\ result.word \notin MemoryBefore(result.holder)
              /\ store = result.before[1].store \cup {result.word}
        /\ (MemoryAfter \ MemoryBefore(result.holder)) \subseteq store
        /\ result.kind = "Err" => MemoryAfter = MemoryBefore(result.holder)

\* -------------------------------------------------------------------------
\* The lock's claim (under SpecThreads)
\* -------------------------------------------------------------------------
\* the threads inside the loop of enrich, holding the read guard
Reading == {t \in 1..MaxThreads : threads[t].op = "sentence" /\ threads[t].pc = "loop"}

\* the threads inside update or sync, holding the write guard
Writing ==
    {t \in 1..MaxThreads :
        threads[t].op \in {"back_propagation", "sync"} /\ threads[t].pc = "loop"}

\* C15: the dictionary of a StopWordEnricher is under reader/writer
\* exclusion in every interleaving of sentence, back_propagation and sync
\* calls.  At most one thread is inside update or sync, and then no thread
\* is inside enrich; the dictionary does not change while a thread is inside
\* enrich; and the sentence an enrich pass returns is the one enrich gives
\* on the single dictionary state the pass found when it took the lock.
C15_ReaderWriterExclusion ==
    /\ Cardinality(Writing) <= 1
    /\ Writing # {} => Reading = {}
    /\ \A t \in Reading : threads[t].seen = <<pipeline[1].dictionary>>
    /\ \A t \in 1..MaxThreads :
          (threads[t].op = "sentence" /\ threads[t].pc = "done") =>
              LET r == StopWordEnrich([pipeline[1] EXCEPT !.dictionary = threads[t].seen[1]],
                                      NewSentence(msg, Tokenize(msg)))
              IN  /\ threads[t].kind = r.kind
                  /\ r.kind = "Ok" => threads[t].sentence = <<r.sentence>>

\* two enrich passes hold the dictionary at once, after an update has put
\* a word into it
C15_Witness ==
    /\ Cardinality(Reading) >= 2
    /\ <<"s">> \in pipeline[1].dictionary.dictionary

\* -------------------------------------------------------------------------
\* The number annotations' claim (under SpecNumberStages)
\* -------------------------------------------------------------------------
\* C21: on every sentence returned by a pipeline with the NumberEnricher
\* once or more (possibly with StopWordEnricher stages), the number
\* annotations are consistent in their tags.  A token has a sign index
\* exactly when it has a value tagged I64, and a value without a sign index
\* is tagged U64; a sign index on token i is the Usize i - 1 and token i - 1
\* carries the number index i, a Usize; so NumberEnricher::extract reads
\* every annotation under the tag it expects and does not panic.
C21_TagConsistency ==
    Returned =>
        LET sentence == outcome.sentence[1]
            tokens == sentence.tokens
        IN  /\ \A i \in 0..(Len(tokens) - 1) :
                  LET meta == tokens[i + 1].meta
                  IN  /\ SIGN_INDEX \in DOMAIN meta <=>
                            (VALUE \in DOMAIN meta /\ meta[VALUE].tag = "I64")
                      /\ (VALUE \in DOMAIN meta /\ SIGN_INDEX \notin DOMAIN meta) =>
                            meta[VALUE].tag = "U64"
                      /\ SIGN_INDEX \in DOMAIN meta =>
                            /\ i >= 1
                            /\ meta[SIGN_INDEX] = MetaUsize(i - 1)
                            /\ NUMBER_INDEX \in DOMAIN tokens[i].meta
                            /\ tokens[i].meta[NUMBER_INDEX] = MetaUsize(i)
            /\ NumberExtract(sentence).kind = "Ok"

\* "-5" through the NumberEnricher and a StopWordEnricher that marks both
\* tokens, in either order: "5" carries a signed value, the sign index 0
\* and the stop-word mark, and extract returns the one signed number
C21_Witness ==
    /\ Returned
    /\ msg = <<"-", "5">>
    /\ \E k \in 1..Len(pipeline) : pipeline[k] = NumberEnricher
    /\ \E k \in 1..Len(pipeline) : pipeline[k].kind = "StopWord"
    /\ outcome.sentence[1].tokens[2].meta[SIGN_INDEX] = MetaUsize(0)
    /\ outcome.sentence[1].tokens[2].meta[VALUE] = MetaI64(I64(TRUE, <<5>>))
    /\ has_meta(outcome.sentence[1].tokens[2], STOP_WORD)
    /\ NumberExtract(outcome.sentence[1]).numbers =
          << [loc |-> Loc(0, 2), number |-> [signed |-> TRUE, val |-> I64(TRUE, <<5>>)]] >>

====
